---------------------------- MODULE Spec2Model ----------------------------
(***************************************************************************)
(* FlightDeals: the spreadsheet-backed price store (DataManager), the      *)
(* reconciliation of one observed price (DataManager.update_flight) and    *)
(* the sweep over all tracked routes (App._update).                        *)
(*                                                                         *)
(* The spreadsheet is a sequence of sheets, each a title and the rows the  *)
(* Sheets API returns for range A:B: a row is a sequence of 0, 1 or 2      *)
(* cells, every cell the text the sheet renders.                           *)
(***************************************************************************)
EXTENDS Integers, Sequences, FiniteSets, TLC

Origins == {"GDA", "KRK"}
Dests == {"WAW", "BER"}
Prices == {1, 2}

\* The store holds at most MaxRows rows in all: a call from the menu is issued
\* only if it leaves the store within that.
MaxRows == 3

\* The same during a sweep
MaxSweepRows == 2

--------------------------------------------------------------------------
(* Cell text.  A number written to a cell is read back as its decimal     *)
(* text; int() parses that text and raises ValueError on anything else.   *)

Digits == <<"0", "1", "2", "3", "4", "5", "6", "7", "8", "9">>

FormatCell(p) == Digits[p + 1]

IsNumeral(s) == \E i \in DOMAIN Digits : Digits[i] = s

int(s) == (CHOOSE i \in DOMAIN Digits : Digits[i] = s) - 1

--------------------------------------------------------------------------
(* Ranges and sheet ids.                                                   *)

AVAILABLE_RANGE == "A:B"

\* 'FROM_<origin>'
prepare_sheet_id(start_location) == "FROM_" \o start_location

\* '<sheet_id>'!<cells>, kept as the pair the string is split back into
prepare_range(sheet_id, cells) == <<sheet_id, cells>>

get_flight_dict(start_location, destination, price) ==
    [origin_airport |-> start_location,
     destination_airport |-> destination,
     price |-> price]

--------------------------------------------------------------------------
(* The five Sheets API calls.  Each takes the outcome of the round trip:   *)
(* ok = FALSE is an HttpError, which every caller catches and logs.       *)

SheetTitles(sh) == {sh[i].title : i \in DOMAIN sh}

SheetPos(sh, sheet_id) == CHOOSE i \in DOMAIN sh : sh[i].title = sheet_id

SheetValues(sh, sheet_id) ==
    IF sheet_id \in SheetTitles(sh) THEN sh[SheetPos(sh, sheet_id)].values ELSE <<>>

\* batchUpdate(addSheet): the API refuses a title that is already taken
create_sheet(sh, sheet_id, ok) ==
    IF ok /\ sheet_id \notin SheetTitles(sh)
    THEN [sheets |-> Append(sh, [title |-> sheet_id, values |-> <<>>]),
          status |-> TRUE]
    ELSE [sheets |-> sh, status |-> FALSE]

\* spreadsheets.get: on HttpError the list of sheets is taken to be empty
check_if_sheet_exists(sh, sheet_id, ok) ==
    LET sheets_ == IF ok THEN sh ELSE <<>>
    IN  \E i \in DOMAIN sheets_ : sheets_[i].title = sheet_id

\* append_data with the rows put before the first row of the sheet
append_data_at_head(sh, sheet_id, new_values, ok) ==
    IF ok /\ sheet_id \in SheetTitles(sh)
    THEN [sheets |-> [sh EXCEPT ![SheetPos(sh, sheet_id)].values =
                         [i \in DOMAIN new_values |->
                             <<new_values[i][1], FormatCell(new_values[i][2])>>] \o @],
          status |-> TRUE]
    ELSE [sheets |-> sh, status |-> FALSE]

\* append_data that adds no row for a destination the sheet already holds
append_data_unique(sh, sheet_id, new_values, ok) ==
    IF ok /\ sheet_id \in SheetTitles(sh)
    THEN [sheets |-> [sh EXCEPT ![SheetPos(sh, sheet_id)].values =
                         IF \E k \in DOMAIN @ : Len(@[k]) >= 1 /\ @[k][1] = new_values[1][1]
                         THEN @
                         ELSE @ \o [i \in DOMAIN new_values |->
                                 <<new_values[i][1], FormatCell(new_values[i][2])>>]],
          status |-> TRUE]
    ELSE [sheets |-> sh, status |-> FALSE]

\* values.append with INSERT_ROWS: the rows go after the last row of the sheet;
\* appending to a sheet that does not exist is an HttpError
append_data(sh, sheet_id, new_values, ok) ==
    IF ok /\ sheet_id \in SheetTitles(sh)
    THEN [sheets |-> [sh EXCEPT ![SheetPos(sh, sheet_id)].values =
                         @ \o [i \in DOMAIN new_values |->
                                 <<new_values[i][1], FormatCell(new_values[i][2])>>]],
          status |-> TRUE]
    ELSE [sheets |-> sh, status |-> FALSE]

\* SetB that empties cell A of the row
SetB_clearing_A(values, row, text) ==
    LET padded == values \o [i \in 1..(row - Len(values)) |-> <<>>]
    IN  [padded EXCEPT ![row] = <<"", text>>]

\* The row of the sheet after cell B<row> is set to text
SetB(values, row, text) ==
    LET padded == values \o [i \in 1..(row - Len(values)) |-> <<>>]
        old == padded[row]
    IN  [padded EXCEPT ![row] = IF Len(old) = 0 THEN <<"", text>>
                                                ELSE <<old[1], text>>]

\* values.update of one cell B<row>; response is "ok" (updatedCells = 1),
\* "zero" (updatedCells = 0) or "error" (HttpError)
update_data(sh, new_values, cells_range, response) ==
    LET sheet_id == cells_range[1]
        row == cells_range[2][2]
    IN  IF response = "ok" /\ sheet_id \in SheetTitles(sh)
        THEN [sheets |-> [sh EXCEPT ![SheetPos(sh, sheet_id)].values =
                             SetB(@, row, FormatCell(new_values[1][1]))],
              status |-> TRUE]
        ELSE [sheets |-> sh, status |-> FALSE]

\* values.get behind an existence check; [] when the sheet is missing or on HttpError
read_data(sh, cells_range, okExists, okGet) ==
    LET sheet_id == cells_range[1]
    IN  IF ~check_if_sheet_exists(sh, sheet_id, okExists) THEN <<>>
        ELSE IF ~okGet THEN <<>>
        ELSE SheetValues(sh, sheet_id)

--------------------------------------------------------------------------
(* DataManager._read_flights: the dict {row[0]: int(row[1])} over the rows *)
(* of length 2.  A dict is kept as the sequence of its <<key, value>>      *)
(* items in insertion order; setting a key that is present keeps its place.*)

DictKeys(d) == [i \in DOMAIN d |-> d[i][1]]

DictHas(d, k) == \E i \in DOMAIN d : d[i][1] = k

DictGet(d, k) == d[CHOOSE i \in DOMAIN d : d[i][1] = k][2]

DictSet(d, k, v) ==
    IF DictHas(d, k)
    THEN [i \in DOMAIN d |-> IF d[i][1] = k THEN <<k, v>> ELSE d[i]]
    ELSE Append(d, <<k, v>>)

RECURSIVE DictOfRows(_)
DictOfRows(values) ==
    IF values = <<>> THEN <<>>
    ELSE LET init == DictOfRows(SubSeq(values, 1, Len(values) - 1))
             row == values[Len(values)]
         IN  IF Len(row) = 2 THEN DictSet(init, row[1], int(row[2])) ELSE init

\* raised: int(row[1]) met a cell that is no numeral (ValueError, uncaught)
read_flights(sh, start_location, okExists, okGet) ==
    LET sheet_id == prepare_sheet_id(start_location)
        read_range == prepare_range(sheet_id, AVAILABLE_RANGE)
        values == read_data(sh, read_range, okExists, okGet)
        bad == \E i \in DOMAIN values :
                   Len(values[i]) = 2 /\ ~IsNumeral(values[i][2])
    IN  [raised |-> bad,
         flights |-> IF bad THEN <<>> ELSE DictOfRows(values)]

--------------------------------------------------------------------------
(* DataManager._add_flight and DataManager.update_flight.                  *)
(* f gives the outcome of every round trip the call may make:              *)
(*   e1 the existence check of update_flight, e2 the one of _read_data,    *)
(*   g values.get, e3 the existence check of _add_flight, c addSheet,      *)
(*   a values.append, u the response of values.update.                     *)

Faults == [e1 : BOOLEAN, e2 : BOOLEAN, g : BOOLEAN, e3 : BOOLEAN,
           c : BOOLEAN, a : BOOLEAN, u : {"ok", "zero", "error"}]

Healthy == [e1 |-> TRUE, e2 |-> TRUE, g |-> TRUE, e3 |-> TRUE,
            c |-> TRUE, a |-> TRUE, u |-> "ok"]

\* add_flight that returns once it has created the sheet
add_flight_create_only(sh, flight, f) ==
    LET sheet_id == prepare_sheet_id(flight.origin_airport)
        missing == ~check_if_sheet_exists(sh, sheet_id, f.e3)
        created == create_sheet(sh, sheet_id, f.c)
        appended == append_data(sh, sheet_id,
                                <<<<flight.destination_airport, flight.price>>>>, f.a)
    IN  IF missing
        THEN [sheets |-> created.sheets, failed |-> ~created.status,
              writes |-> <<[op |-> "create", ok |-> created.status]>>]
        ELSE [sheets |-> appended.sheets, failed |-> ~appended.status,
              writes |-> <<[op |-> "append", ok |-> appended.status]>>]

\* failed: a write the call issued reported failure (it is only logged here);
\* writes: the writes the call issued, in order, each with its status
add_flight(sh, flight, f) ==
    LET sheet_id == prepare_sheet_id(flight.origin_airport)
        missing == ~check_if_sheet_exists(sh, sheet_id, f.e3)
        created == IF missing THEN create_sheet(sh, sheet_id, f.c)
                              ELSE [sheets |-> sh, status |-> TRUE]
        appended == append_data(created.sheets, sheet_id,
                                <<<<flight.destination_airport, flight.price>>>>, f.a)
    IN  [sheets |-> appended.sheets,
         failed |-> ~created.status \/ ~appended.status,
         writes |-> (IF missing THEN <<[op |-> "create", ok |-> created.status]>>
                                ELSE <<>>)
                    \o <<[op |-> "append", ok |-> appended.status]>>]

\* RowNumber that answers 1 for every destination the dict holds
RowNumber_first_row(existing_values, dest) ==
    IF DictHas(existing_values, dest) THEN 1 ELSE -1

\* the 1-based rank of dest among the keys of the dict, -1 when absent
RowNumber(existing_values, dest) ==
    LET keys == DictKeys(existing_values)
    IN  IF \E nr \in DOMAIN keys : keys[nr] = dest
        THEN CHOOSE nr \in DOMAIN keys :
                 keys[nr] = dest /\ \A m \in 1..(nr - 1) : keys[m] # dest
        ELSE -1

\* path: "create" (no sheet seen for the origin), "insert" (no entry seen for
\* the destination), "update" (entry found at row_number), "read" (the read raised).
\* raised: the call ended in an exception; failed: a write it issued reported failure.
update_flight(sh, start, dest, price, f) ==
    LET flight == get_flight_dict(start, dest, price)
        sheet_id == prepare_sheet_id(flight.origin_airport)
    IN  IF ~check_if_sheet_exists(sh, sheet_id, f.e1)
        THEN LET added == add_flight(sh, flight, f)
             IN  [sheets |-> added.sheets, path |-> "create", row_number |-> -1,
                  raised |-> FALSE, failed |-> added.failed,
                  writes |-> added.writes]
        ELSE LET existing == read_flights(sh, flight.origin_airport, f.e2, f.g)
                 row_number == RowNumber(existing.flights, flight.destination_airport)
             IN  IF existing.raised
                 THEN [sheets |-> sh, path |-> "read", row_number |-> -1,
                       raised |-> TRUE, failed |-> FALSE, writes |-> <<>>]
                 ELSE IF row_number = -1
                 THEN LET added == add_flight(sh, flight, f)
                      IN  [sheets |-> added.sheets, path |-> "insert",
                           row_number |-> -1,
                           raised |-> FALSE, failed |-> added.failed,
                           writes |-> added.writes]
                 ELSE LET update_range == prepare_range(sheet_id, <<"B", row_number>>)
                          updated == update_data(sh, <<<<flight.price>>>>,
                                                 update_range, f.u)
                      IN  [sheets |-> updated.sheets, path |-> "update",
                           row_number |-> row_number,
                           raised |-> ~updated.status, failed |-> ~updated.status,
                           writes |-> <<[op |-> "update", ok |-> updated.status]>>]

--------------------------------------------------------------------------
(* App._update, the sweep.  It is written against three DataManager        *)
(* methods: get_start_locations and get_destination_airports, which        *)
(* data_manager.py does not define (taken from the specification's         *)
(* list_origins and read_group(origin).keys()), and update_flight, which   *)
(* it calls with the FlightData object; the call is taken to pass the      *)
(* object's origin, destination and price.                                 *)

OriginOf(title) == CHOOSE o \in Origins : prepare_sheet_id(o) = title

\* list_origins(): the origins of the created groups, in the order of the sheets
get_start_locations(sh) == [i \in DOMAIN sh |-> OriginOf(sh[i].title)]

\* read_group(origin).keys()
get_destination_airports(sh, origin) ==
    DictKeys(read_flights(sh, origin, TRUE, TRUE).flights)

\* FlightSearch.obtain_flight_data: None when the provider's data is empty, else
\* the FlightData built from the first itinerary of the response
NoQuote == [found |-> FALSE]

Quotes == {NoQuote} \cup
          [found : {TRUE}, origin_airport : Origins,
           destination_airport : Dests, price : Prices]

\* update_flight has no return statement: the caller gets None
UpdateFlightReturn == "None"

\* ShouldNotify without the test of the status code
ShouldNotify_ignoring_status(status_code, send_notifications) == send_notifications

\* status_code == 0 and send_notifications
ShouldNotify(status_code, send_notifications) ==
    status_code = "0" /\ send_notifications

--------------------------------------------------------------------------
(* State.                                                                  *)

VARIABLES
    sheets,     \* the spreadsheet
    call,       \* the last update_flight call: its arguments, whether every
                \* round trip succeeded, its result and the spreadsheet before it
    sweep,      \* App._update: its position, its arguments and its loop variables
    sent,       \* NotificationManager.send_message invocations of the current sweep
    flows,      \* run and run_automatic_update side by side: for each, the
                \* update_flight call it is in, round trip by round trip
    update_all_loop     \* App._update_all_loop

vars == <<sheets, call, sweep, sent, flows, update_all_loop>>

\* The two loops of App that reach the store
Flows == {"run", "run_automatic_update"}

IdleFlow == [pc |-> "idle"]

NoFlows == [t \in Flows |-> IdleFlow]

TotalRows(sh) ==
    LET RECURSIVE Sum(_)
        Sum(i) == IF i = 0 THEN 0 ELSE Len(sh[i].values) + Sum(i - 1)
    IN  Sum(Len(sh))

NoCall == [op |-> "none"]

\* healthy: every round trip of the call succeeded; repeat: the call before it
\* had the same arguments, and every round trip of both succeeded
CallRecord(sh, start, dest, price, f, r, repeat) ==
    [op |-> "update_flight", start |-> start, dest |-> dest, price |-> price,
     healthy |-> (f = Healthy), before |-> sh, path |-> r.path,
     row_number |-> r.row_number, raised |-> r.raised, failed |-> r.failed,
     writes |-> r.writes, repeat |-> repeat]

NoStep == [route |-> <<>>]

Idle == [pc |-> "idle", notify |-> FALSE, origins |-> <<>>, dests |-> <<>>,
         raised |-> FALSE, quoted |-> FALSE, wrote |-> FALSE, step |-> NoStep]

Init ==
    /\ sheets = <<>>
    /\ call = NoCall
    /\ sweep = Idle
    /\ sent = 0
    /\ flows = NoFlows
    /\ update_all_loop = FALSE

\* The outcomes of the round trips a call for (start, dest) makes from sh: one
\* member of Faults for every way they can turn out, the outcomes of the round
\* trips the call does not make left at those of Healthy.
AddFaults(sh, sheet_id, base) ==
    {[base EXCEPT !.e3 = t[1], !.c = t[2], !.a = t[3]] :
        t \in {t \in BOOLEAN \X BOOLEAN \X BOOLEAN :
                  check_if_sheet_exists(sh, sheet_id, t[1]) => t[2]}}

FaultsFor(sh, start, dest) ==
    LET sheet_id == prepare_sheet_id(start)
        AfterRead(base) ==
            LET existing == read_flights(sh, start, base.e2, base.g)
            IN  IF existing.raised THEN {base}
                ELSE IF RowNumber(existing.flights, dest) = -1
                THEN AddFaults(sh, sheet_id, base)
                ELSE {[base EXCEPT !.u = u] : u \in {"ok", "zero", "error"}}
    IN  UNION {IF ~check_if_sheet_exists(sh, sheet_id, e1)
               THEN AddFaults(sh, sheet_id, [Healthy EXCEPT !.e1 = e1])
               ELSE UNION {AfterRead([Healthy EXCEPT !.e2 = t[1], !.g = t[2]]) :
                              t \in {t \in BOOLEAN \X BOOLEAN :
                                        ~check_if_sheet_exists(sh, sheet_id, t[1]) => t[2]}}
               : e1 \in BOOLEAN}

\* One call of DataManager.update_flight(start, dest, price) from the menu
Reconcile(start, dest, price, f) ==
    LET r == update_flight(sheets, start, dest, price, f)
    IN  /\ sweep = Idle
        /\ call = NoCall
        /\ TotalRows(r.sheets) <= MaxRows
        /\ sheets' = r.sheets
        /\ call' = CallRecord(sheets, start, dest, price, f, r, FALSE)
        /\ UNCHANGED <<sweep, sent, flows, update_all_loop>>

\* The call just made, made once more with the same arguments, every round trip
\* of both calls succeeding
ReconcileAgain ==
    LET r == update_flight(sheets, call.start, call.dest, call.price, Healthy)
    IN  /\ sweep = Idle
        /\ call # NoCall
        /\ call.healthy
        /\ ~call.repeat
        /\ TotalRows(r.sheets) <= MaxRows
        /\ sheets' = r.sheets
        /\ call' = CallRecord(sheets, call.start, call.dest, call.price, Healthy, r, TRUE)
        /\ UNCHANGED <<sweep, sent, flows, update_all_loop>>

\* run(): print, _press_enter(), and the menu is shown again; nothing is kept of
\* the call but what it left in the spreadsheet
press_enter ==
    /\ sweep = Idle
    /\ call # NoCall
    /\ call' = NoCall
    /\ UNCHANGED <<sheets, sweep, sent, flows, update_all_loop>>

\* _update(send_notifications): origin_airports = get_start_locations()
SweepStart(send_notifications) ==
    /\ sweep = Idle
    /\ sweep' = [Idle EXCEPT !.pc = "origins", !.notify = send_notifications,
                             !.origins = get_start_locations(sheets)]
    /\ sent' = 0
    /\ UNCHANGED <<sheets, call, flows, update_all_loop>>

\* for o_airport in origin_airports: destination_airports = ...; the loop ends
\* when the origins are used up
SweepOrigin ==
    /\ sweep.pc = "origins"
    /\ sweep' = IF sweep.origins = <<>>
                THEN [sweep EXCEPT !.pc = "idle"]
                ELSE [sweep EXCEPT !.pc = "routes",
                         !.dests = get_destination_airports(sheets, Head(sweep.origins))]
    /\ UNCHANGED <<sheets, call, sent, flows, update_all_loop>>

\* for d_airport in destination_airports: one pass of the loop body, or the
\* move to the next origin when the destinations are used up
SweepRoute(flight, f) ==
    /\ sweep.pc = "routes"
    /\ sweep.dests # <<>>
    /\ LET o_airport == Head(sweep.origins)
           d_airport == Head(sweep.dests)
           r == update_flight(sheets, flight.origin_airport,
                              flight.destination_airport, flight.price, f)
           status_code == IF flight.found THEN UpdateFlightReturn ELSE "-1"
           notified == ShouldNotify(status_code, sweep.notify)
           raised == flight.found /\ r.raised
       IN  /\ flight.found => TotalRows(r.sheets) <= MaxSweepRows
           /\ sheets' = IF flight.found THEN r.sheets ELSE sheets
           /\ call' = IF flight.found
                      THEN CallRecord(sheets, flight.origin_airport,
                                      flight.destination_airport, flight.price, f, r,
                                      FALSE)
                      ELSE call
           /\ sent' = IF ~raised /\ notified THEN sent + 1 ELSE sent
           /\ sweep' = [sweep EXCEPT
                  !.pc = IF raised THEN "idle" ELSE "routes",
                  !.raised = raised,
                  !.quoted = @ \/ flight.found,
                  !.wrote = @ \/ (sheets' # sheets),
                  !.dests = IF raised THEN @ ELSE Tail(@),
                  !.step = [route |-> <<o_airport, d_airport>>, flight |-> flight,
                            wrote |-> (sheets' # sheets),
                            notified |-> (sent' # sent),
                            status_code |-> status_code,
                            path |-> IF flight.found THEN r.path ELSE "skip",
                            ok |-> flight.found /\ ~r.raised /\ ~r.failed]]
           /\ UNCHANGED <<flows, update_all_loop>>

SweepNextOrigin ==
    /\ sweep.pc = "routes"
    /\ sweep.dests = <<>>
    /\ sweep' = [sweep EXCEPT !.pc = "origins", !.origins = Tail(@)]
    /\ UNCHANGED <<sheets, call, sent, flows, update_all_loop>>

\* The program from an empty spreadsheet: update_flight calls one after another,
\* every round trip free to fail
Next ==
    \/ \E start \in Origins, dest \in Dests, price \in Prices :
           \E f \in FaultsFor(sheets, start, dest) :
               Reconcile(start, dest, price, f)
    \/ ReconcileAgain
    \/ press_enter

Spec == Init /\ [][Next]_vars

--------------------------------------------------------------------------
(* One sweep, from every spreadsheet that at most two update_flight calls  *)
(* whose round trips all succeed build from the empty one.                 *)

ProgramStep(S) ==
    S \cup {update_flight(sh, o, d, p, Healthy).sheets :
               sh \in S, o \in Origins, d \in Dests, p \in Prices}

ProgramStores == ProgramStep(ProgramStep({<<>>}))

InitSweep ==
    /\ sheets \in ProgramStores
    /\ call = NoCall
    /\ sweep = Idle
    /\ sent = 0
    /\ flows = NoFlows
    /\ update_all_loop = FALSE

NextSweep ==
    \/ \E send_notifications \in BOOLEAN : SweepStart(send_notifications)
    \/ SweepOrigin
    \/ \E flight \in Quotes :
           \E f \in (IF flight.found
                     THEN FaultsFor(sheets, flight.origin_airport,
                                    flight.destination_airport)
                     ELSE {Healthy}) :
               SweepRoute(flight, f)
    \/ SweepNextOrigin

SpecSweep == InitSweep /\ [][NextSweep]_vars

--------------------------------------------------------------------------
(* update_flight on a sheet as a person may have left it: rows of 0, 1 or  *)
(* 2 cells, a second cell that is a numeral or other text, on a sheet of   *)
(* at most two rows.  The API leaves out trailing empty rows.             *)

PriceTexts == {FormatCell(p) : p \in Prices} \cup {"n/a"}

CellRows == {<<>>} \cup {<<d>> : d \in Dests} \cup
            {<<d, t>> : d \in Dests, t \in PriceTexts}

SheetContents ==
    {v \in {<<>>} \cup {<<a>> : a \in CellRows} \cup
           {<<a, b>> : a \in CellRows, b \in CellRows} :
        v = <<>> \/ v[Len(v)] # <<>>}

InitSheet ==
    /\ sheets \in {<<>>} \cup
                  {<<[title |-> prepare_sheet_id("GDA"), values |-> v]>> :
                      v \in SheetContents}
    /\ call = NoCall
    /\ sweep = Idle
    /\ sent = 0
    /\ flows = NoFlows
    /\ update_all_loop = FALSE

SpecSheet == InitSheet /\ [][Next]_vars

--------------------------------------------------------------------------
(* run_automatic_update: the periodic loop, with the menu's operation 6    *)
(* (_change_update_all_loop) free to flip the toggle between any two of    *)
(* its steps.  sweep.pc is "idle" while the loop sleeps and "tick" when it *)
(* has woken up; an exception that leaves _update leaves the loop too.     *)

\* self._update_all_loop = not self._update_all_loop
change_update_all_loop ==
    /\ update_all_loop' = ~update_all_loop
    /\ UNCHANGED <<sheets, call, sweep, sent, flows>>

\* _update has returned: time.sleep(self._AUTO_UPDATE_INTERVAL).  The records
\* of the sweep and of its last call are dropped.
AutomaticUpdateSleep ==
    /\ sweep.pc = "idle"
    /\ sweep # Idle
    /\ ~sweep.raised
    /\ sweep' = Idle
    /\ call' = NoCall
    /\ UNCHANGED <<sheets, sent, flows, update_all_loop>>

\* time.sleep is over: the next pass of while True
AutomaticUpdateTick ==
    /\ sweep = Idle
    /\ TotalRows(sheets) <= MaxSweepRows
    /\ sweep' = [Idle EXCEPT !.pc = "tick"]
    /\ call' = NoCall
    /\ UNCHANGED <<sheets, sent, flows, update_all_loop>>

\* if self._update_all_loop: self._update(send_notifications=True); else sleep
AutomaticUpdateCheck ==
    /\ sweep.pc = "tick"
    /\ IF update_all_loop
       THEN /\ sweep' = [Idle EXCEPT !.pc = "origins", !.notify = TRUE,
                                     !.origins = get_start_locations(sheets)]
            /\ sent' = 0
       ELSE /\ sweep' = Idle
            /\ sent' = sent
    /\ UNCHANGED <<sheets, call, flows, update_all_loop>>

\* The outcomes of the round trips followed in the periodic loop: all succeed,
\* or values.update raises HttpError
TimerFaults == {Healthy, [Healthy EXCEPT !.u = "error"]}

\* the steps of the periodic loop
AutomaticUpdateStep ==
    \/ AutomaticUpdateSleep
    \/ AutomaticUpdateTick
    \/ AutomaticUpdateCheck
    \/ SweepOrigin
    \/ \E flight \in Quotes :
           \E f \in (IF flight.found THEN TimerFaults ELSE {Healthy}) :
               SweepRoute(flight, f)
    \/ SweepNextOrigin

NextTimer ==
    \/ change_update_all_loop
    \/ AutomaticUpdateStep

\* The loop keeps running: a sleep ends, a round trip returns
SpecTimer == InitSweep /\ [][NextTimer]_vars /\ WF_vars(AutomaticUpdateStep)

--------------------------------------------------------------------------
(* The menu and the periodic loop from an empty spreadsheet, one operation *)
(* at a time: update_flight calls from the menu while the loop sleeps, and *)
(* the sweeps of the loop.                                                 *)

\* operation 6 has been chosen once: the toggle is enabled
InitApp ==
    /\ sheets = <<>>
    /\ call = NoCall
    /\ sweep = Idle
    /\ sent = 0
    /\ flows = NoFlows
    /\ update_all_loop = TRUE

NextApp ==
    \/ Next
    \/ AutomaticUpdateStep

SpecApp == InitApp /\ [][NextApp]_vars

--------------------------------------------------------------------------
(* The two loops side by side.  run reaches update_flight from             *)
(* _add_new_flight, run_automatic_update from _update; nothing orders the  *)
(* round trips of one call against those of the other.  Every round trip   *)
(* succeeds here, and both flows work on the group of one origin.          *)

FlowOrigins == {"GDA"}

\* update_flight entered: flight = get_flight_dict(start, dest, price)
FlowCall(t, start, dest, price) ==
    /\ flows[t].pc \in {"idle", "done"}
    /\ flows' = [flows EXCEPT ![t] =
           [pc |-> "check", start |-> start, dest |-> dest, price |-> price,
            path |-> "", row_number |-> -1, target |-> ""]]
    /\ UNCHANGED <<sheets, call, sweep, sent, update_all_loop>>

\* if not self._check_if_sheet_exists(...): self._add_flight(flight)
FlowCheck(t) ==
    /\ flows[t].pc = "check"
    /\ flows' = [flows EXCEPT ![t] =
           IF check_if_sheet_exists(sheets, prepare_sheet_id(@.start), TRUE)
           THEN [@ EXCEPT !.pc = "read_check"]
           ELSE [@ EXCEPT !.pc = "add_check", !.path = "create"]]
    /\ UNCHANGED <<sheets, call, sweep, sent, update_all_loop>>

\* _read_flights, _read_data: the existence check; [] when the sheet is missing
FlowReadCheck(t) ==
    /\ flows[t].pc = "read_check"
    /\ flows' = [flows EXCEPT ![t] =
           IF check_if_sheet_exists(sheets, prepare_sheet_id(@.start), TRUE)
           THEN [@ EXCEPT !.pc = "read_get"]
           ELSE [@ EXCEPT !.pc = "add_check", !.path = "insert"]]
    /\ UNCHANGED <<sheets, call, sweep, sent, update_all_loop>>

\* _read_data: values.get; the dict and row_number are computed from what this
\* round trip returned
FlowReadGet(t) ==
    /\ flows[t].pc = "read_get"
    /\ LET existing_values ==
               read_flights(sheets, flows[t].start, TRUE, TRUE).flights
           row_number == RowNumber(existing_values, flows[t].dest)
       IN  flows' = [flows EXCEPT ![t] =
               IF row_number = -1
               THEN [@ EXCEPT !.pc = "add_check", !.path = "insert"]
               ELSE [@ EXCEPT !.pc = "update", !.path = "update",
                              !.row_number = row_number]]
    /\ UNCHANGED <<sheets, call, sweep, sent, update_all_loop>>

\* _add_flight: if not self._check_if_sheet_exists(sheet_id)
FlowAddCheck(t) ==
    /\ flows[t].pc = "add_check"
    /\ flows' = [flows EXCEPT ![t] =
           IF check_if_sheet_exists(sheets, prepare_sheet_id(@.start), TRUE)
           THEN [@ EXCEPT !.pc = "add_append"]
           ELSE [@ EXCEPT !.pc = "add_create"]]
    /\ UNCHANGED <<sheets, call, sweep, sent, update_all_loop>>

\* _add_flight: self._create_sheet(sheet_id), its result dropped
FlowAddCreate(t) ==
    /\ flows[t].pc = "add_create"
    /\ sheets' = create_sheet(sheets, prepare_sheet_id(flows[t].start), TRUE).sheets
    /\ flows' = [flows EXCEPT ![t].pc = "add_append"]
    /\ UNCHANGED <<call, sweep, sent, update_all_loop>>

\* _add_flight: self._append_data(sheet_id, [[destination, price]])
FlowAddAppend(t) ==
    /\ flows[t].pc = "add_append"
    /\ TotalRows(sheets) < MaxRows
    /\ sheets' = append_data(sheets, prepare_sheet_id(flows[t].start),
                             <<<<flows[t].dest, flows[t].price>>>>, TRUE).sheets
    /\ flows' = [flows EXCEPT ![t].pc = "done"]
    /\ UNCHANGED <<call, sweep, sent, update_all_loop>>

\* self._update_data([[price]], 'B<row_number>'); target: the destination that
\* stood in the row when its price cell was written
FlowUpdate(t) ==
    /\ flows[t].pc = "update"
    /\ LET sheet_id == prepare_sheet_id(flows[t].start)
           values == SheetValues(sheets, sheet_id)
           row == flows[t].row_number
       IN  /\ sheets' = update_data(sheets, <<<<flows[t].price>>>>,
                                    prepare_range(sheet_id, <<"B", row>>), "ok").sheets
           /\ flows' = [flows EXCEPT ![t].pc = "done",
                                     ![t].target = values[row][1]]
    /\ UNCHANGED <<call, sweep, sent, update_all_loop>>

NextFlows ==
    \E t \in Flows :
        \/ \E start \in FlowOrigins, dest \in Dests, price \in Prices :
               FlowCall(t, start, dest, price)
        \/ FlowCheck(t)
        \/ FlowReadCheck(t)
        \/ FlowReadGet(t)
        \/ FlowAddCheck(t)
        \/ FlowAddCreate(t)
        \/ FlowAddAppend(t)
        \/ FlowUpdate(t)

SpecFlows == Init /\ [][NextFlows]_vars

--------------------------------------------------------------------------
(* The store as the specification names it.                                *)

group_exists(sh, origin) == check_if_sheet_exists(sh, prepare_sheet_id(origin), TRUE)

read_group(sh, origin) == read_flights(sh, origin, TRUE, TRUE).flights

Rows(sh, origin) == SheetValues(sh, prepare_sheet_id(origin))

Called == call.op = "update_flight"

\* the sheets of every origin but the given one
OtherSheets(sh, origin) ==
    SelectSeq(sh, LAMBDA sheet : sheet.title # prepare_sheet_id(origin))

--------------------------------------------------------------------------
(* Properties.                                                             *)

\* C1: a call update_flight(o, d, p) whose round trips all succeed, made when the
\* group of o does not exist, leaves the group of o existing and read_group(o)
\* equal to the one-entry mapping {d: p}.
C1_NewOriginCreated ==
    (Called /\ call.healthy /\ ~group_exists(call.before, call.start))
        => /\ group_exists(sheets, call.start)
           /\ read_group(sheets, call.start) = <<<<call.dest, call.price>>>>

\* a second origin gets its group with its one entry
C1_Witness ==
    /\ Called /\ call.healthy
    /\ ~group_exists(call.before, call.start)
    /\ Len(call.before) = 1
    /\ read_group(sheets, call.start) = <<<<call.dest, call.price>>>>

\* C2: a call update_flight(o, d, p1) whose round trips all succeed, made when d
\* is stored under o, takes the update path and leaves read_group(o)[d] = p1,
\* whatever the stored price was.
C2_OverwriteAlways ==
    (Called /\ call.healthy /\ DictHas(read_group(call.before, call.start), call.dest))
        => /\ call.path = "update"
           /\ DictHas(read_group(sheets, call.start), call.dest)
           /\ DictGet(read_group(sheets, call.start), call.dest) = call.price

\* C3: a call update_flight(o, d_new, p) whose round trips all succeed, made when
\* the group of o exists and read_group(o) has no entry for d_new, takes the
\* insert path (no update): the rows of o afterwards are the rows before followed
\* by the one row (d_new, p), and every other sheet is as before.
C3_NovelDestinationAppended ==
    (/\ Called /\ call.healthy
     /\ group_exists(call.before, call.start)
     /\ ~DictHas(read_group(call.before, call.start), call.dest))
        => /\ call.path = "insert"
           /\ Rows(sheets, call.start) =
                  Append(Rows(call.before, call.start),
                         <<call.dest, FormatCell(call.price)>>)
           /\ OtherSheets(sheets, call.start) = OtherSheets(call.before, call.start)

\* a new destination lands behind a stored one
C3_Witness ==
    /\ Called /\ call.healthy /\ call.path = "insert"
    /\ Len(Rows(call.before, call.start)) = 1
    /\ Len(Rows(sheets, call.start)) = 2
    /\ Rows(sheets, call.start)[2] = <<call.dest, FormatCell(call.price)>>

\* C4: when update_flight(o, d, p) is called twice in succession with the same
\* arguments, every round trip of both calls succeeding, the second call leaves
\* the spreadsheet as the first call left it.
C4_Idempotent ==
    (Called /\ call.repeat) => sheets = call.before

\* C5: every group holds at most one row per destination.
C5_UniqueDestinations ==
    \A i \in DOMAIN sheets :
        \A a, b \in DOMAIN sheets[i].values :
            (/\ a # b
             /\ Len(sheets[i].values[a]) >= 1
             /\ Len(sheets[i].values[b]) >= 1)
                => sheets[i].values[a][1] # sheets[i].values[b][1]

\* the number of the first row of the sheet whose first cell is dest
ActualRow(values, dest) ==
    CHOOSE i \in DOMAIN values :
        /\ Len(values[i]) >= 1 /\ values[i][1] = dest
        /\ \A j \in 1..(i - 1) : ~(Len(values[j]) >= 1 /\ values[j][1] = dest)

\* C6: on the update path the row number update_flight computes is the number of
\* the row of the group whose destination is the one it was called with.
C6_RowNumberIsActualRow ==
    (Called /\ call.path = "update")
        => call.row_number = ActualRow(Rows(call.before, call.start), call.dest)

\* the rows of length 2, in stored order
PairRows(values) == SelectSeq(values, LAMBDA row : Len(row) = 2)

\* C7: read_group never raises; it is empty for a group that does not exist,
\* and for a group whose rows of length 2 have distinct destinations it is
\* those rows, in stored order.
C7_ReadGroupTotal ==
    \A o \in Origins :
        LET r == read_flights(sheets, o, TRUE, TRUE)
            pairs == PairRows(Rows(sheets, o))
        IN  /\ ~r.raised
            /\ ~group_exists(sheets, o) => r.flights = <<>>
            /\ (\A a, b \in DOMAIN pairs : a # b => pairs[a][1] # pairs[b][1])
                   => pairs = [i \in DOMAIN r.flights |->
                                 <<r.flights[i][1], FormatCell(r.flights[i][2])>>]

\* C8: an update_flight call in which a write to the store reported failure
\* ends with an exception.
C8_FailureRaises ==
    (Called /\ call.failed) => call.raised

\* C9: a pass of the sweep's loop body invokes send_message exactly when
\* notifications are on, a quote was returned and update_flight overwrote an
\* existing entry with success.
C9_NotifiedOnOverwrite ==
    sweep.step # NoStep
        => (sweep.step.notified <=>
                /\ sweep.notify
                /\ sweep.step.flight.found
                /\ sweep.step.path = "update"
                /\ sweep.step.ok)

\* a pass of the loop body of the sweep for a route with no quote
C10_Skip ==
    (/\ sweep.pc = "routes" /\ sweep.dests # <<>>
     /\ sweep' # sweep
     /\ ~sweep'.step.flight.found)
        => /\ sheets' = sheets
           /\ sent' = sent
           /\ ~sweep'.raised
           /\ sweep'.pc = "routes"
           /\ sweep'.origins = sweep.origins
           /\ sweep'.dests = Tail(sweep.dests)

\* C10: a pass of the sweep for a route with no quote writes nothing, notifies
\* nobody, raises nothing and leaves the sweep at the next route; as long as no
\* route of a sweep got a quote the sweep has written nothing and notified nobody.
C10_NoQuoteNoWrite ==
    /\ [](~sweep.quoted => (~sweep.wrote /\ sent = 0))
    /\ [][C10_Skip]_vars

\* a sweep with notifications on, over two routes, ended with no quote for either
C10_Witness ==
    /\ sweep.pc = "idle" /\ sweep.step # NoStep
    /\ sweep.notify /\ ~sweep.quoted /\ ~sweep.raised
    /\ TotalRows(sheets) = 2

\* C11: a pass of the sweep's loop body in which a write to the store reported
\* failure raises nothing and leaves the sweep at the next route.
C11_SweepSurvivesFailedWrite ==
    (/\ sweep.step # NoStep
     /\ sweep.step.flight.found
     /\ sweep.step.path \in {"create", "insert", "update"}
     /\ ~sweep.step.ok)
        => /\ ~sweep.raised
           /\ sweep.pc = "routes"

\* the number of rows of the group of origin whose destination is dest
RowsFor(sh, origin, dest) ==
    Cardinality({i \in DOMAIN Rows(sh, origin) :
                    Len(Rows(sh, origin)[i]) >= 1 /\ Rows(sh, origin)[i][1] = dest})

\* the two flows have each completed an update_flight call for the same origin
\* and destination on the append path: the group holds two rows or more for it
C12_TwoRows ==
    (/\ \A t \in Flows : flows[t].pc = "done" /\ flows[t].path \in {"create", "insert"}
     /\ flows["run"].start = flows["run_automatic_update"].start
     /\ flows["run"].dest = flows["run_automatic_update"].dest)
        => RowsFor(sheets, flows["run"].start, flows["run"].dest) >= 2

\* the append of a flow that saw no entry for its destination adds a row for it,
\* whatever the other flow has written to the group since
C12_AppendUnchecked ==
    \A t \in Flows :
        (flows[t].pc = "add_append" /\ flows'[t].pc = "done")
            => RowsFor(sheets', flows[t].start, flows[t].dest) =
                   RowsFor(sheets, flows[t].start, flows[t].dest) + 1

\* C12: a flow that read the group of o before the other flow wrote (o, d) and
\* saw no entry for d appends its row all the same, and once both flows have
\* completed update_flight(o, d, _) on the append path the group of o holds at
\* least two rows for d.
C12_BothAppend ==
    /\ []C12_TwoRows
    /\ [][C12_AppendUnchecked]_vars

\* the first two calls, on an empty spreadsheet: both created, both appended
C12_Witness ==
    /\ \A t \in Flows : flows[t].pc = "done" /\ flows[t].path = "create"
    /\ flows["run"].dest = flows["run_automatic_update"].dest
    /\ TotalRows(sheets) = 2
    /\ RowsFor(sheets, flows["run"].start, flows["run"].dest) = 2

\* C13: an update of a flow's update_flight(o, d, _) writes the price cell of
\* the row whose number is the rank of d among the distinct destinations it
\* read; the row it wrote held another destination than d only if two rows
\* above the first row of d hold the same destination.
C13_WrongRowOnlyBelowDuplicates ==
    \A t \in Flows :
        (flows[t].pc = "done" /\ flows[t].path = "update" /\ flows[t].target # flows[t].dest)
            => LET values == Rows(sheets, flows[t].start)
               IN  \E a, b \in 1..(ActualRow(values, flows[t].dest) - 1) :
                       a < b /\ values[a][1] = values[b][1]

\* both flows appended (o, d), a later call appended d2 below the two rows, and
\* the update of update_flight(o, d2, _) wrote the price cell of the second row of d
C13_Witness ==
    \E t \in Flows :
        /\ flows[t].pc = "done" /\ flows[t].path = "update"
        /\ flows[t].target # flows[t].dest
        /\ flows[t].row_number = 2
        /\ Rows(sheets, flows[t].start)[2] =
               <<flows[t].target, FormatCell(flows[t].price)>>

\* the periodic loop has just started a sweep: _update(send_notifications=True)
\* has read the origins and made no pass of its loop body yet
SweepStarted == sweep.pc = "origins" /\ sweep.notify /\ sweep.step = NoStep

\* C14: if the toggle is enabled and stays enabled, the periodic loop
\* eventually starts a sweep with notifications on.
C14_EnabledEventuallySweeps ==
    (<>[]update_all_loop) => ([]<>SweepStarted)

\* C15: no step of an update_flight call or of a sweep removes a sheet or a row
\* or moves one: every sheet keeps its place and title, every row keeps its place
\* and its destination, and new rows and sheets come behind the old ones.
C15_Step ==
    \A i \in DOMAIN sheets :
        /\ i \in DOMAIN sheets'
        /\ sheets'[i].title = sheets[i].title
        /\ Len(sheets'[i].values) >= Len(sheets[i].values)
        /\ \A k \in DOMAIN sheets[i].values :
               /\ Len(sheets'[i].values[k]) = 2
               /\ sheets'[i].values[k][1] = sheets[i].values[k][1]

C15_AppendOnly == [][C15_Step]_vars

\* a pass of a sweep changed the price in the second row of a group that calls
\* from the menu had built
C15_Witness ==
    /\ sweep.step # NoStep
    /\ sweep.step.path = "update" /\ sweep.step.wrote
    /\ call.row_number = 2
    /\ sheets # call.before
    /\ Len(Rows(sheets, call.start)) = Len(Rows(call.before, call.start))

\* the routes a sweep that has ended never queried: the destinations behind the
\* one it was at and those of the origins behind the one it was at
RoutesNotQueried ==
    LET here == IF sweep.origins = <<>> THEN <<>>
                ELSE [i \in 1..Len(IF sweep.raised THEN Tail(sweep.dests)
                                                   ELSE sweep.dests) |->
                         <<Head(sweep.origins),
                           (IF sweep.raised THEN Tail(sweep.dests) ELSE sweep.dests)[i]>>]
        later == IF sweep.origins = <<>> THEN {}
                 ELSE {<<sweep.origins[i], d>> :
                          i \in 2..Len(sweep.origins), d \in Dests}
    IN  {here[i] : i \in DOMAIN here} \cup
        {r \in later : DictHas(read_group(sheets, r[1]), r[2])}

\* C16: a sweep that has ended has queried every route of the store: none of the
\* destinations it listed and no route of an origin it had not reached is left.
C16_SweepQueriesEveryRoute ==
    sweep.pc = "idle" => RoutesNotQueried = {}

\* the group holds two rows with the same destination
HasDuplicates(values) ==
    \E a, b \in DOMAIN values : a < b /\ values[a][1] = values[b][1]

\* C17: in a group that holds several rows with the same destination, an
\* update_flight call whose round trips all succeed and that finds its
\* destination overwrites the price of the first row with that destination and
\* nothing else.
C17_FirstMatchOverwritten ==
    (/\ Called /\ call.healthy /\ call.path = "update"
     /\ HasDuplicates(Rows(call.before, call.start)))
        => LET values == Rows(call.before, call.start)
               first == ActualRow(values, call.dest)
           IN  Rows(sheets, call.start) =
                   [values EXCEPT ![first] = <<call.dest, FormatCell(call.price)>>]

\* C18: an update_flight call issues at most one append or update, and no write
\* after a write that reported failure.
C18_SingleWrite ==
    Called =>
        /\ Len(SelectSeq(call.writes, LAMBDA w : w.op \in {"append", "update"})) <= 1
        /\ \A i \in DOMAIN call.writes :
               ~call.writes[i].ok => i = Len(call.writes)

\* C19: an update_flight call that takes the append path for a destination the
\* group already stores (its existence check or its read failed) leaves the
\* group with one row for that destination.
C19_ReadFailureNoDuplicate ==
    (/\ Called
     /\ RowsFor(call.before, call.start, call.dest) = 1
     /\ call.path \in {"create", "insert"})
        => RowsFor(sheets, call.start, call.dest) = 1

\* every group of the store holds at most one row per destination
UniqueDestinations(sh) ==
    \A i \in DOMAIN sh : ~HasDuplicates(sh[i].values)

\* the groups of the store and, for each, the destinations of its rows
RouteRows(sh) ==
    [i \in DOMAIN sh |->
        [title |-> sh[i].title,
         dests |-> [k \in DOMAIN sh[i].values |-> sh[i].values[k][1]]]]

\* C20: a pass of a sweep that got a quote and whose round trips all succeeded,
\* on a store with one row per destination, leaves the groups and the
\* (origin, destination) rows as they were: only prices may differ.
C20_SweepChangesPricesOnly ==
    (/\ sweep.step # NoStep
     /\ sweep.step.flight.found
     /\ Called /\ call.healthy
     /\ UniqueDestinations(call.before))
        => RouteRows(sheets) = RouteRows(call.before)

==========================================================================
